---- MODULE Spec2Model ----
(***************************************************************************)
(* Model of transformer_exploration.ipynb: the modules PositionalEncoding,  *)
(* ScaledDotProductAttention, MultiHeadAttention,                          *)
(* PositionWiseFeedForwardNetwork, EncoderLayer, TransformerEncoder and     *)
(* Transformer, their constructors and their forward methods.              *)
(*                                                                         *)
(* A session constructs one module at a time (obj, with its weights in     *)
(* params) and calls its forward method.  Tensors of the module graph are  *)
(* modelled by their shape and by the expression that computes them (a     *)
(* term over the input and the weights): specification Spec.               *)
(* ScaledDotProductAttention called on its own is computed on numbers, in  *)
(* fixed point: specification SpecAttention.                               *)
(***************************************************************************)
EXTENDS Integers, Sequences, FiniteSets, TLC

VARIABLES obj, params, built, ctor, call, prev, pc, x, remaining, applied,
          head_outputs, projected, finished, concatenated

\* the locals of MultiHeadAttention.forward computed head by head
headvars == <<head_outputs, projected, finished, concatenated>>

vars == <<obj, params, built, ctor, call, prev, pc, x, remaining, applied,
          head_outputs, projected, finished, concatenated>>

-----------------------------------------------------------------------------
(* Bounds of the model *)

MaxBatch == 2
MaxSeqLen == 3
MaxPosLen == 2
MaxDModel == 4
MaxHeads == 2
MaxLayers == 2
MaxVocab == 2
AttnMaxLen == 2
FixedPoint == 1000
ExpTerms == 12

(* Program constants *)

DefaultDff == 2048
EncoderLayerDff == 2048
DefaultDModel == 512
DefaultNumLayers == 6
SoftmaxDim == 1

-----------------------------------------------------------------------------
(* Helpers *)

Min(a, b) == IF a < b THEN a ELSE b
Max(a, b) == IF a > b THEN a ELSE b

RECURSIVE SumTo(_, _)
SumTo(f, n) == IF n = 0 THEN 0 ELSE f[n] + SumTo(f, n - 1)

\* an optional argument: NoArg when the call leaves it out, Arg(v) when it gives v
NoArg == <<>>
Arg(v) == <<v>>
ArgOr(a, default) == IF a = NoArg THEN default ELSE a[1]

-----------------------------------------------------------------------------
(* Tensors of the module graph: shape and defining expression.  An         *)
(* exception raised while computing a tensor is the tensor Raise(kind);    *)
(* every operation propagates it.                                          *)

Tensor(shape, val) == [ok |-> TRUE, shape |-> shape, val |-> val]
Raise(kind) == [ok |-> FALSE, shape |-> <<>>, val |-> <<"error", kind>>]

Last(s) == s[Len(s)]
WithLast(s, d) == [s EXCEPT ![Len(s)] = d]

\* a + b with torch broadcasting, both of rank 3
Broadcastable(s, t) == \A j \in 1..3 : s[j] = t[j] \/ s[j] = 1 \/ t[j] = 1

TensorAdd(a, b) ==
    IF ~a.ok THEN a
    ELSE IF ~b.ok THEN b
    ELSE IF ~Broadcastable(a.shape, b.shape) THEN Raise("RuntimeError")
    ELSE Tensor([j \in 1..3 |-> Max(a.shape[j], b.shape[j])], <<"add", a.val, b.val>>)

\* t[:, :n, :]
SliceSeq(t, n) ==
    IF ~t.ok THEN t
    ELSE Tensor([t.shape EXCEPT ![2] = Min(n, t.shape[2])], <<"slice", n, t.val>>)

\* t.transpose(1, 2)
Transpose(t) ==
    IF ~t.ok THEN t
    ELSE Tensor(<<t.shape[1], t.shape[3], t.shape[2]>>, <<"transpose", t.val>>)

\* torch.bmm(a, b)
Bmm(a, b) ==
    IF ~a.ok THEN a
    ELSE IF ~b.ok THEN b
    ELSE IF a.shape[1] /= b.shape[1] \/ a.shape[3] /= b.shape[2] THEN Raise("RuntimeError")
    ELSE Tensor(<<a.shape[1], a.shape[2], b.shape[3]>>, <<"bmm", a.val, b.val>>)

\* t / torch.sqrt(torch.tensor(d))
DivSqrt(t, d) ==
    IF ~t.ok THEN t ELSE Tensor(t.shape, <<"div_sqrt", d, t.val>>)

\* F.softmax(t, dim=dim), dim counted from 0
Softmax(t, dim) ==
    IF ~t.ok THEN t ELSE Tensor(t.shape, <<"softmax", dim, t.val>>)

\* F.relu(t)
Relu(t) ==
    IF ~t.ok THEN t ELSE Tensor(t.shape, <<"relu", t.val>>)

\* torch.cat(ts, dim=dim), dim counted from 0, ts a sequence of rank 3 tensors
CatShapesAgree(ts, dim) ==
    \A h \in 1..Len(ts) : \A j \in 1..3 : j /= dim + 1 => ts[h].shape[j] = ts[1].shape[j]

TensorCat(ts, dim) ==
    IF Len(ts) = 0 THEN Raise("RuntimeError")
    ELSE IF \E h \in 1..Len(ts) : ~ts[h].ok
         THEN ts[CHOOSE h \in 1..Len(ts) : ~ts[h].ok /\ \A g \in 1..(h - 1) : ts[g].ok]
    ELSE IF ~CatShapesAgree(ts, dim) THEN Raise("RuntimeError")
    ELSE Tensor([ts[1].shape EXCEPT ![dim + 1] = SumTo([h \in 1..Len(ts) |-> ts[h].shape[dim + 1]], Len(ts))],
                <<"cat", dim, [h \in 1..Len(ts) |-> ts[h].val]>>)

-----------------------------------------------------------------------------
(* Weights.  A module's weights live in the store params, a sequence       *)
(* indexed by the order in which the constructor created them.             *)

InitialWeight(id) == <<"weight", id>>
FreshStore(n) == [id \in 1..n |-> InitialWeight(id)]

\* nn.Linear(in_features, out_features, bias): weight at id w, bias at id b (0: none)
Linear(inF, outF, w, b) == [in_features |-> inF, out_features |-> outF, weight |-> w, bias |-> b]

LinearForward(lin, store, t) ==
    IF ~t.ok THEN t
    ELSE IF Last(t.shape) /= lin.in_features THEN Raise("RuntimeError")
    ELSE Tensor(WithLast(t.shape, lin.out_features),
                <<"linear", store[lin.weight],
                  IF lin.bias = 0 THEN <<"nobias">> ELSE store[lin.bias], t.val>>)

\* nn.LayerNorm(normalized_shape): weight at id w, bias at id w + 1
LayerNorm(d, w) == [normalized_shape |-> d, weight |-> w, bias |-> w + 1]

LayerNormForward(ln, store, t) ==
    IF ~t.ok THEN t
    ELSE IF Last(t.shape) /= ln.normalized_shape THEN Raise("RuntimeError")
    ELSE Tensor(t.shape, <<"layer_norm", store[ln.weight], store[ln.bias], t.val>>)

-----------------------------------------------------------------------------
(* ScaledDotProductAttention.forward on numbers.  A numeric tensor is a    *)
(* sequence (batch) of matrices (sequences of rows).  Reals are fixed      *)
(* point numbers with FixedPoint units to 1.                               *)

Rows(m) == Len(m)
Cols(m) == Len(m[1])

\* floor(sqrt(n)), by bisection between lo and hi
RECURSIVE IntSqrt(_, _, _)
IntSqrt(n, lo, hi) ==
    IF lo >= hi THEN lo
    ELSE LET mid == (lo + hi + 1) \div 2
         IN IF mid * mid <= n THEN IntSqrt(n, mid, hi) ELSE IntSqrt(n, lo, mid - 1)

\* floor(FixedPoint * sqrt(n))
SqrtFixed(n) == IntSqrt(n * FixedPoint * FixedPoint, 0, n * FixedPoint)

\* FixedPoint * e^(v / FixedPoint) for v >= 0, by the exponential series
RECURSIVE ExpSeries(_, _, _)
ExpSeries(v, n, term) ==
    IF n > ExpTerms THEN 0
    ELSE term + ExpSeries(v, n + 1, (term * v) \div ((n + 1) * FixedPoint))

ExpFixed(v) == ExpSeries(v, 0, FixedPoint)

\* torch.bmm(queries, keys.transpose(1, 2)) for one batch element
DotProduct(q, k) ==
    [a \in 1..Rows(q) |-> [b \in 1..Rows(k) |->
        SumTo([j \in 1..Cols(q) |-> q[a][j] * k[b][j]], Cols(q))]]

\* dot_product / sqrt(d_k), in fixed point
ScaledDotProduct(q, k) ==
    LET dp == DotProduct(q, k)
        d_k == Cols(q)
        root == SqrtFixed(d_k)
    IN [a \in 1..Rows(q) |-> [b \in 1..Rows(k) |->
           (dp[a][b] * FixedPoint * FixedPoint) \div root]]

\* F.softmax(s, dim) of one batch element of a (B, Lq, Lk) tensor: dim 1 is
\* the axis of the rows (queries), dim 2 the axis of the columns (keys)
SoftmaxFixed(s, dim) ==
    LET e == [a \in 1..Rows(s) |-> [b \in 1..Cols(s) |-> ExpFixed(s[a][b])]]
        overRows(b) == SumTo([a \in 1..Rows(s) |-> e[a][b]], Rows(s))
        overCols(a) == SumTo([b \in 1..Cols(s) |-> e[a][b]], Cols(s))
    IN [a \in 1..Rows(s) |-> [b \in 1..Cols(s) |->
           (e[a][b] * FixedPoint) \div (IF dim = 1 THEN overRows(b) ELSE overCols(a))]]

\* queries_keys_similarity_probabilities, per batch element
AttentionWeights(queries, keys) ==
    [b \in 1..Len(queries) |-> SoftmaxFixed(ScaledDotProduct(queries[b], keys[b]), SoftmaxDim)]

\* torch.bmm(weights, values) for one batch element
WeightedValues(w, v) ==
    [a \in 1..Rows(w) |-> [j \in 1..Cols(v) |->
        SumTo([b \in 1..Cols(w) |-> w[a][b] * v[b][j]], Cols(w))]]

AttentionForward(queries, keys, values) ==
    LET w == AttentionWeights(queries, keys)
    IN [b \in 1..Len(queries) |-> WeightedValues(w[b], values[b])]

-----------------------------------------------------------------------------
(* Results of constructors: the instance and the number of weights it      *)
(* created, or the exception and the number of weights created before it.  *)

Built(inst, n) == [ok |-> TRUE, err |-> "none", inst |-> inst, created |-> n]
Failed(err, n) == [ok |-> FALSE, err |-> err, inst |-> [cls |-> "None"], created |-> n]

NoObj == [cls |-> "None"]

-----------------------------------------------------------------------------
(* PositionalEncoding *)

\* number of columns of m[0, :, 0::2], of m[0, :, 1::2] and of division_term
EvenColumns(d_model) == (d_model + 1) \div 2
OddColumns(d_model) == d_model \div 2

\* compute_positional_encoding_matrix: the assignments of sin and cos need
\* as many target columns as division_term has entries (or one entry)
PositionalEncodingNew(max_seq_length, d_model) ==
    LET terms == EvenColumns(d_model)
    IN IF terms /= 1 /\ terms /= OddColumns(d_model)
       THEN Failed("RuntimeError", 0)
       ELSE Built([cls |-> "PositionalEncoding",
                   positional_encoding_matrix |->
                       Tensor(<<1, max_seq_length, d_model>>, <<"pe", max_seq_length, d_model>>)], 0)

PositionalEncodingForward(self, embedding) ==
    IF ~embedding.ok THEN embedding
    ELSE TensorAdd(embedding, SliceSeq(self.positional_encoding_matrix, embedding.shape[2]))

\* variant: the sum is accumulated into the matrix in place
PositionalEncodingAfterForwardInPlace(self, embedding) ==
    [self EXCEPT !.positional_encoding_matrix.val =
                     <<"add", self.positional_encoding_matrix.val, embedding.val>>]

\* the module after forward: forward builds a new tensor and assigns nothing
PositionalEncodingAfterForward(self, embedding) == self

-----------------------------------------------------------------------------
(* ScaledDotProductAttention inside the module graph *)

ScaledDotProductAttention(queries, keys, values) ==
    LET d_k == Last(queries.shape)
        dot_product == Bmm(queries, Transpose(keys))
        scaled_dot_product == DivSqrt(dot_product, d_k)
        queries_keys_similarity_probabilities == Softmax(scaled_dot_product, SoftmaxDim)
    IN Bmm(queries_keys_similarity_probabilities, values)

-----------------------------------------------------------------------------
(* MultiHeadAttention *)

\* variant: the assertion on d_v is missing
MultiHeadAttentionCheckWithoutDv(num_heads, d_k, d_v, d_model) ==
    IF d_model % num_heads /= 0 THEN "AssertionError: d_model must be divisible by num_heads"
    ELSE IF d_k /= d_model \div num_heads THEN "AssertionError: d_k must be equal to d_model // num_heads"
    ELSE "ok"

\* the three assertions of __init__, in order
MultiHeadAttentionCheck(num_heads, d_k, d_v, d_model) ==
    IF d_model % num_heads /= 0 THEN "AssertionError: d_model must be divisible by num_heads"
    ELSE IF d_k /= d_model \div num_heads THEN "AssertionError: d_k must be equal to d_model // num_heads"
    ELSE IF d_v /= d_model \div num_heads THEN "AssertionError: d_v must be equal to d_model // num_heads"
    ELSE "ok"

MultiHeadAttentionSize(num_heads) == 3 * num_heads + 2

\* weights are created after the assertions, from id base + 1 on
MultiHeadAttentionNew(num_heads, d_k, d_v, d_model, base) ==
    LET check == MultiHeadAttentionCheck(num_heads, d_k, d_v, d_model)
    IN IF check /= "ok" THEN Failed(check, 0)
       ELSE Built([cls |-> "MultiHeadAttention",
                   num_heads |-> num_heads,
                   queries_projections |-> [h \in 1..num_heads |-> Linear(d_model, d_k, base + h, 0)],
                   keys_projections |-> [h \in 1..num_heads |-> Linear(d_model, d_k, base + num_heads + h, 0)],
                   values_projections |-> [h \in 1..num_heads |-> Linear(d_model, d_v, base + 2 * num_heads + h, 0)],
                   multi_head_linear |-> Linear(num_heads * d_v, d_model,
                                                base + 3 * num_heads + 1, base + 3 * num_heads + 2)],
                  MultiHeadAttentionSize(num_heads))

\* dim of torch.cat(heads, dim=2)
CatDim == 2

\* variant: the heads are concatenated along the sequence axis
MultiHeadAttentionForwardCatSequence(self, store, queries, keys, values) ==
    LET heads == [h \in 1..self.num_heads |->
                     ScaledDotProductAttention(
                         LinearForward(self.queries_projections[h], store, queries),
                         LinearForward(self.keys_projections[h], store, keys),
                         LinearForward(self.values_projections[h], store, values))]
        heads_concatenated == TensorCat(heads, 1)
    IN LinearForward(self.multi_head_linear, store, heads_concatenated)

MultiHeadAttentionForward(self, store, queries, keys, values) ==
    LET heads == [h \in 1..self.num_heads |->
                     ScaledDotProductAttention(
                         LinearForward(self.queries_projections[h], store, queries),
                         LinearForward(self.keys_projections[h], store, keys),
                         LinearForward(self.values_projections[h], store, values))]
        heads_concatenated == TensorCat(heads, CatDim)
    IN LinearForward(self.multi_head_linear, store, heads_concatenated)

-----------------------------------------------------------------------------
(* PositionWiseFeedForwardNetwork *)

PositionWiseFeedForwardNetworkSize == 4

\* d_ff = NoArg: the argument is not given and the default is used
PositionWiseFeedForwardNetworkNew(d_model, d_ff_arg, base) ==
    LET d_ff == ArgOr(d_ff_arg, DefaultDff)
    IN Built([cls |-> "PositionWiseFeedForwardNetwork",
              linear_1 |-> Linear(d_model, d_ff, base + 1, base + 2),
              linear_2 |-> Linear(d_ff, d_model, base + 3, base + 4)],
             PositionWiseFeedForwardNetworkSize)

PositionWiseFeedForwardNetworkForward(self, store, t) ==
    LinearForward(self.linear_2, store, Relu(LinearForward(self.linear_1, store, t)))

-----------------------------------------------------------------------------
(* EncoderLayer *)

EncoderLayerSize(num_heads) ==
    MultiHeadAttentionSize(num_heads) + 2 + PositionWiseFeedForwardNetworkSize + 2

\* variant: the feed-forward block is built with d_ff = d_model
EncoderLayerNewDffFromModel(num_heads, d_k, d_v, d_model, base) ==
    LET mha == MultiHeadAttentionNew(num_heads, d_k, d_v, d_model, base)
        ln1 == base + MultiHeadAttentionSize(num_heads)
        ffn == ln1 + 2
        ln2 == ffn + PositionWiseFeedForwardNetworkSize
    IN IF ~mha.ok THEN Failed(mha.err, mha.created)
       ELSE Built([cls |-> "EncoderLayer",
                   multi_head_attention |-> mha.inst,
                   layer_normalization_1 |-> LayerNorm(d_model, ln1 + 1),
                   position_wise_feed_forward_network |->
                       PositionWiseFeedForwardNetworkNew(d_model, Arg(d_model), ffn).inst,
                   layer_normalization_2 |-> LayerNorm(d_model, ln2 + 1)],
                  EncoderLayerSize(num_heads))

EncoderLayerNew(num_heads, d_k, d_v, d_model, base) ==
    LET mha == MultiHeadAttentionNew(num_heads, d_k, d_v, d_model, base)
        ln1 == base + MultiHeadAttentionSize(num_heads)
        ffn == ln1 + 2
        ln2 == ffn + PositionWiseFeedForwardNetworkSize
    IN IF ~mha.ok THEN Failed(mha.err, mha.created)
       ELSE Built([cls |-> "EncoderLayer",
                   multi_head_attention |-> mha.inst,
                   layer_normalization_1 |-> LayerNorm(d_model, ln1 + 1),
                   position_wise_feed_forward_network |->
                       PositionWiseFeedForwardNetworkNew(d_model, Arg(EncoderLayerDff), ffn).inst,
                   layer_normalization_2 |-> LayerNorm(d_model, ln2 + 1)],
                  EncoderLayerSize(num_heads))

\* variant: the second residual adds the layer's input instead of x2
EncoderLayerForwardResidualFromInput(self, store, t) ==
    LET x1 == TensorAdd(t, MultiHeadAttentionForward(self.multi_head_attention, store, t, t, t))
        x2 == LayerNormForward(self.layer_normalization_1, store, x1)
        x3 == TensorAdd(t, PositionWiseFeedForwardNetworkForward(
                               self.position_wise_feed_forward_network, store, x2))
        x4 == LayerNormForward(self.layer_normalization_2, store, x3)
    IN x4

EncoderLayerForward(self, store, t) ==
    LET x1 == TensorAdd(t, MultiHeadAttentionForward(self.multi_head_attention, store, t, t, t))
        x2 == LayerNormForward(self.layer_normalization_1, store, x1)
        x3 == TensorAdd(x2, PositionWiseFeedForwardNetworkForward(
                                self.position_wise_feed_forward_network, store, x2))
        x4 == LayerNormForward(self.layer_normalization_2, store, x3)
    IN x4

-----------------------------------------------------------------------------
(* TransformerEncoder *)

\* weights created before layer n: each layer of the list comprehension is a
\* new EncoderLayer
LayerBase(n, num_heads) == (n - 1) * EncoderLayerSize(num_heads)

TransformerEncoderNew(num_layers, num_heads, sequence_length, d_model, base) ==
    LET layers == [n \in 1..num_layers |->
                      EncoderLayerNew(num_heads, sequence_length, sequence_length, d_model,
                                      base + LayerBase(n, num_heads))]
    IN IF \E n \in 1..num_layers : ~layers[n].ok
       THEN LET f == CHOOSE n \in 1..num_layers : ~layers[n].ok /\ \A m \in 1..(n - 1) : layers[m].ok
            IN Failed(layers[f].err, LayerBase(f, num_heads) + layers[f].created)
       ELSE Built([cls |-> "TransformerEncoder",
                   layers |-> [n \in 1..num_layers |-> layers[n].inst]],
                  num_layers * EncoderLayerSize(num_heads))

-----------------------------------------------------------------------------
(* Transformer *)

\* variant: the notebook defines TransformerDecoder too
DefinedNamesWithDecoder ==
    {"PositionalEncoding", "ScaledDotProductAttention", "MultiHeadAttention",
     "PositionWiseFeedForwardNetwork", "EncoderLayer", "TransformerEncoder",
     "DecoderLayer", "TransformerDecoder", "Transformer"}

\* the classes the notebook defines
DefinedNames ==
    {"PositionalEncoding", "ScaledDotProductAttention", "MultiHeadAttention",
     "PositionWiseFeedForwardNetwork", "EncoderLayer", "TransformerEncoder",
     "DecoderLayer", "Transformer"}

\* __init__ statement by statement: embedding (one weight), positional
\* encoding, encoder, decoder, output_linear (two weights)
TransformerNew(tokens_dictionary_size, max_sequence_length, num_heads, sequence_length, d_model, num_layers) ==
    LET pe == PositionalEncodingNew(max_sequence_length, d_model)
        enc == TransformerEncoderNew(num_layers, num_heads, sequence_length, d_model, 1)
    IN IF ~pe.ok THEN Failed(pe.err, 1)
       ELSE IF ~enc.ok THEN Failed(enc.err, 1 + enc.created)
       ELSE IF "TransformerDecoder" \notin DefinedNames
            THEN Failed("NameError: name 'TransformerDecoder' is not defined", 1 + enc.created)
       ELSE Built([cls |-> "Transformer",
                   embedding |-> [num_embeddings |-> tokens_dictionary_size,
                                  embedding_dim |-> d_model, weight |-> 1],
                   positional_encoding |-> pe.inst,
                   encoder |-> enc.inst,
                   decoder |-> [cls |-> "TransformerDecoder"],
                   output_linear |-> Linear(d_model, tokens_dictionary_size,
                                            enc.created + 2, enc.created + 3),
                   d_model |-> d_model],
                  enc.created + 3)

-----------------------------------------------------------------------------
(* Calls.  A keyword argument that the signature does not name is a        *)
(* TypeError before the body runs.                                         *)

PositionWiseFeedForwardNetworkSignature == {"d_model", "d_ff"}
EncoderLayerSignature == {"num_heads", "d_k", "d_v", "d_model"}
TransformerEncoderSignature == {"num_layers", "num_heads", "sequence_length", "d_model"}

DffKeyword(d_ff_arg) == IF d_ff_arg = NoArg THEN {} ELSE {"d_ff"}

Accepted(signature, keywords) == keywords \subseteq signature

UnexpectedKeyword == "TypeError: unexpected keyword argument"

NoCall == [cls |-> "None"]
Running == [ok |-> FALSE, shape |-> <<>>, val |-> <<"running">>]

(* Inputs *)

DModels == 2..MaxDModel
HeadDims == 1..MaxDModel
DffChoices == {3, DefaultDff}
DffArgs == {NoArg} \cup {Arg(f) : f \in DffChoices}
Elems == {0, 1}
AttnDims == {1, 2}

InputTensor(b, l, d, name) == Tensor(<<b, l, d>>, <<"input", name>>)

Matrices(rows, cols) == [1..rows -> [1..cols -> Elems]]

-----------------------------------------------------------------------------
(* The session *)

Init ==
    /\ obj = NoObj
    /\ params = <<>>
    /\ built = [obj |-> NoObj, params |-> <<>>]
    /\ ctor = [cls |-> "None"]
    /\ call = NoCall
    /\ prev = NoCall
    /\ pc = "idle"
    /\ x = Running
    /\ remaining = <<>>
    /\ applied = <<>>
    /\ head_outputs = <<>>
    /\ projected = <<>>
    /\ finished = <<>>
    /\ concatenated = Running

\* the outcome r of a constructor call becomes the session's module
Install(cls, args, r) ==
    /\ obj' = r.inst
    /\ params' = IF r.ok THEN FreshStore(r.created) ELSE <<>>
    /\ built' = [obj |-> obj', params |-> params']
    /\ ctor' = [cls |-> cls, args |-> args, ok |-> r.ok, err |-> r.err, created |-> r.created]
    /\ call' = NoCall
    /\ prev' = NoCall
    /\ UNCHANGED <<pc, x, remaining, applied>>
    /\ UNCHANGED headvars

\* the inputs of the next call: any of all when no call is logged, else the
\* input of the last call again
Inputs(all) == IF call.cls = "None" THEN all ELSE {call.input}

ConstructPositionalEncoding ==
    /\ pc = "idle"
    /\ ctor.cls = "None"
    /\ \E m \in 1..MaxPosLen, d \in DModels :
           Install("PositionalEncoding", [max_seq_length |-> m, d_model |-> d],
                   PositionalEncodingNew(m, d))

ConstructAttention ==
    /\ pc = "idle"
    /\ ctor.cls = "None"
    /\ Install("ScaledDotProductAttention", [none |-> NoArg],
               Built([cls |-> "ScaledDotProductAttention"], 0))

ConstructMultiHeadAttention ==
    /\ pc = "idle"
    /\ ctor.cls = "None"
    /\ \E h \in 1..MaxHeads, dk \in HeadDims, dv \in HeadDims, d \in DModels :
           Install("MultiHeadAttention", [num_heads |-> h, d_k |-> dk, d_v |-> dv, d_model |-> d],
                   MultiHeadAttentionNew(h, dk, dv, d, 0))

ConstructFeedForward ==
    /\ pc = "idle"
    /\ ctor.cls = "None"
    /\ \E d \in DModels, dff \in DffArgs :
           Install("PositionWiseFeedForwardNetwork", [d_model |-> d, d_ff |-> dff],
                   IF Accepted(PositionWiseFeedForwardNetworkSignature, {"d_model"} \cup DffKeyword(dff))
                   THEN PositionWiseFeedForwardNetworkNew(d, dff, 0)
                   ELSE Failed(UnexpectedKeyword, 0))

ConstructEncoderLayer ==
    /\ pc = "idle"
    /\ ctor.cls = "None"
    /\ \E h \in 1..MaxHeads, dk \in HeadDims, dv \in HeadDims, d \in DModels,
          dff \in DffArgs :
           Install("EncoderLayer",
                   [num_heads |-> h, d_k |-> dk, d_v |-> dv, d_model |-> d, d_ff |-> dff],
                   IF Accepted(EncoderLayerSignature,
                               {"num_heads", "d_k", "d_v", "d_model"} \cup DffKeyword(dff))
                   THEN EncoderLayerNew(h, dk, dv, d, 0)
                   ELSE Failed(UnexpectedKeyword, 0))

ConstructTransformerEncoder ==
    /\ pc = "idle"
    /\ ctor.cls = "None"
    /\ \E n \in 0..MaxLayers, h \in 1..MaxHeads, s \in HeadDims, d \in DModels,
          dff \in DffArgs :
           Install("TransformerEncoder",
                   [num_layers |-> n, num_heads |-> h, sequence_length |-> s, d_model |-> d,
                    d_ff |-> dff],
                   IF Accepted(TransformerEncoderSignature,
                               {"num_layers", "num_heads", "sequence_length", "d_model"}
                                   \cup DffKeyword(dff))
                   THEN TransformerEncoderNew(n, h, s, d, 0)
                   ELSE Failed(UnexpectedKeyword, 0))

ConstructTransformer ==
    /\ pc = "idle"
    /\ ctor.cls = "None"
    /\ \E v \in 1..MaxVocab, m \in 1..MaxPosLen, h \in 1..MaxHeads, s \in HeadDims,
          d \in {NoArg} \cup {Arg(e) : e \in DModels},
          n \in {NoArg} \cup {Arg(e) : e \in 0..MaxLayers} :
           Install("Transformer",
                   [tokens_dictionary_size |-> v, max_sequence_length |-> m, num_heads |-> h,
                    sequence_length |-> s, d_model |-> d, num_layers |-> n],
                   TransformerNew(v, m, h, s,
                                  ArgOr(d, DefaultDModel), ArgOr(n, DefaultNumLayers)))

\* a forward call that runs in one step; prev is the call before it
Returns(cls, input, output) ==
    /\ prev' = call
    /\ call' = [cls |-> cls, input |-> input, output |-> output]
    /\ UNCHANGED <<params, built, ctor, pc, x, remaining, applied>>
    /\ UNCHANGED headvars

\* one input tensor of shape (b, l, d)
TensorInputs(name) ==
    {<<InputTensor(b, l, d, name)>> : b \in 1..MaxBatch, l \in 1..MaxSeqLen, d \in DModels}

\* queries of shape (b, lq, d), keys and values of shape (b, lk, d)
AttentionTensorInputs ==
    {<<InputTensor(b, lq, d, "queries"), InputTensor(b, lk, d, "keys"),
       InputTensor(b, lk, d, "values")>> :
         b \in 1..MaxBatch, lq \in 1..MaxSeqLen, lk \in 1..MaxSeqLen, d \in DModels}

PositionalEncodingCall ==
    /\ pc = "idle"
    /\ obj.cls = "PositionalEncoding"
    /\ \E input \in Inputs(TensorInputs("embedding")) :
           /\ Returns("PositionalEncoding", input, PositionalEncodingForward(obj, input[1]))
           /\ obj' = PositionalEncodingAfterForward(obj, input[1])

\* ScaledDotProductAttention.forward on numbers returns
AttentionReturns(input) ==
    /\ prev' = call
    /\ call' = [cls |-> "ScaledDotProductAttention",
                input |-> input,
                weights |-> AttentionWeights(input[1], input[2]),
                output |-> AttentionForward(input[1], input[2], input[3])]
    /\ UNCHANGED <<obj, params, built, ctor, pc, x, remaining, applied>>
    /\ UNCHANGED headvars

\* numeric queries (1, lq, dk), keys (1, lk, dk) and values (1, lk, 1); a
\* logged call is repeated on its input
AttentionCall ==
    /\ pc = "idle"
    /\ obj.cls = "ScaledDotProductAttention"
    /\ IF call.cls = "None"
       THEN \E lq \in 1..AttnMaxLen, lk \in 1..AttnMaxLen, dk \in AttnDims :
            \E q \in Matrices(lq, dk), k \in Matrices(lk, dk), v \in Matrices(lk, 1) :
                AttentionReturns(<<(<<q>>), (<<k>>), (<<v>>)>>)
       ELSE AttentionReturns(call.input)

MultiHeadAttentionCall ==
    /\ pc = "idle"
    /\ obj.cls = "MultiHeadAttention"
    /\ \E input \in Inputs(AttentionTensorInputs) :
           /\ Returns("MultiHeadAttention", input,
                      MultiHeadAttentionForward(obj, params, input[1], input[2], input[3]))
           /\ obj' = obj

FeedForwardCall ==
    /\ pc = "idle"
    /\ obj.cls = "PositionWiseFeedForwardNetwork"
    /\ \E input \in Inputs(TensorInputs("x")) :
           /\ Returns("PositionWiseFeedForwardNetwork", input,
                      PositionWiseFeedForwardNetworkForward(obj, params, input[1]))
           /\ obj' = obj

EncoderLayerCall ==
    /\ pc = "idle"
    /\ obj.cls = "EncoderLayer"
    /\ \E input \in Inputs(TensorInputs("x")) :
           /\ Returns("EncoderLayer", input, EncoderLayerForward(obj, params, input[1]))
           /\ obj' = obj

\* TransformerEncoder.forward: the loop over self.layers, one layer a step
TransformerEncoderCall ==
    /\ pc = "idle"
    /\ obj.cls = "TransformerEncoder"
    /\ \E input \in Inputs(TensorInputs("x")) :
           /\ prev' = call
           /\ call' = [cls |-> "TransformerEncoder", input |-> input, output |-> Running]
           /\ x' = input[1]
    /\ remaining' = [n \in 1..Len(obj.layers) |-> n]
    /\ applied' = <<>>
    /\ pc' = "loop"
    /\ UNCHANGED <<obj, params, built, ctor>>
    /\ UNCHANGED headvars

\* variant: every layer is applied to the input of the call
TransformerEncoderLayerStepOnInput ==
    /\ pc = "loop"
    /\ remaining /= <<>>
    /\ LET layer == obj.layers[Head(remaining)]
           out == EncoderLayerForward(layer, params, call.input[1])
       IN /\ x' = out
          /\ applied' = Append(applied, Head(remaining))
          /\ IF out.ok
             THEN /\ remaining' = Tail(remaining)
                  /\ UNCHANGED <<pc, call>>
             ELSE /\ remaining' = <<>>
                  /\ pc' = "idle"
                  /\ call' = [call EXCEPT !.output = out]
    /\ UNCHANGED <<obj, params, built, ctor, prev>>
    /\ UNCHANGED headvars

\* one iteration of the loop: x = layer(x); an exception ends the call
TransformerEncoderLayerStep ==
    /\ pc = "loop"
    /\ remaining /= <<>>
    /\ LET layer == obj.layers[Head(remaining)]
           out == EncoderLayerForward(layer, params, x)
       IN /\ x' = out
          /\ applied' = Append(applied, Head(remaining))
          /\ IF out.ok
             THEN /\ remaining' = Tail(remaining)
                  /\ UNCHANGED <<pc, call>>
             ELSE /\ remaining' = <<>>
                  /\ pc' = "idle"
                  /\ call' = [call EXCEPT !.output = out]
    /\ UNCHANGED <<obj, params, built, ctor, prev>>
    /\ UNCHANGED headvars

\* return x
TransformerEncoderReturn ==
    /\ pc = "loop"
    /\ remaining = <<>>
    /\ call' = [call EXCEPT !.output = x]
    /\ pc' = "idle"
    /\ UNCHANGED <<obj, params, built, ctor, prev, x, remaining, applied>>
    /\ UNCHANGED headvars

\* the session drops its module (or the failed construction)
Discard ==
    /\ pc = "idle"
    /\ ctor.cls /= "None"
    /\ obj' = NoObj
    /\ params' = <<>>
    /\ built' = [obj |-> NoObj, params |-> <<>>]
    /\ ctor' = [cls |-> "None"]
    /\ call' = NoCall
    /\ prev' = NoCall
    /\ x' = Running
    /\ applied' = <<>>
    /\ UNCHANGED <<pc, remaining>>
    /\ UNCHANGED headvars

\* the session forgets the calls it logged; the module stays as the calls
\* left it, and may be called on any input again
Forget ==
    /\ pc = "idle"
    /\ call.cls /= "None"
    /\ call' = NoCall
    /\ prev' = NoCall
    /\ x' = Running
    /\ applied' = <<>>
    /\ UNCHANGED <<obj, params, built, ctor, pc, remaining>>
    /\ UNCHANGED headvars

-----------------------------------------------------------------------------
(* MultiHeadAttention.forward head by head.  The list comprehension builds  *)
(* one element per head: the head's three projections, evaluated in the     *)
(* order of the arguments, then its attention.  No element reads another,   *)
(* so the heads are taken in any order and interleaving; the concatenation  *)
(* starts when the list is complete.                                        *)

Pending == [ok |-> FALSE, shape |-> <<>>, val |-> <<"pending">>]

\* a head that has evaluated none of its arguments; stage counts the
\* arguments evaluated so far and is 4 once the attention has returned
NotStarted == [stage |-> 0, queries |-> Pending, keys |-> Pending, values |-> Pending]

\* variant: the results are appended to the list as the heads finish
HeadSlotByCompletion(h, done) == Len(done) + 1

\* the position of head h's result in the list heads: the comprehension
\* puts the element of index i at position i
HeadSlot(h, done) == h

\* column c (from 0) of torch.cat(ts, dim=2), searched from part p on: the
\* parts lie side by side in the order of the list.  The result is the
\* position of the part and the column inside it (from 0).
RECURSIVE CatColumn(_, _, _)
CatColumn(ts, p, c) ==
    IF c < Last(ts[p].shape) THEN <<p, c>>
    ELSE CatColumn(ts, p + 1, c - Last(ts[p].shape))

MultiHeadAttentionBegin ==
    /\ pc = "idle"
    /\ obj.cls = "MultiHeadAttention"
    /\ \E input \in Inputs(AttentionTensorInputs) :
           /\ prev' = call
           /\ call' = [cls |-> "MultiHeadAttention", input |-> input, output |-> Running]
    /\ head_outputs' = [h \in 1..obj.num_heads |-> Pending]
    /\ projected' = [h \in 1..obj.num_heads |-> NotStarted]
    /\ finished' = <<>>
    /\ concatenated' = Running
    /\ pc' = "heads"
    /\ UNCHANGED <<obj, params, built, ctor, x, remaining, applied>>

\* the call ends: the locals go out of scope
MultiHeadAttentionEnds(output) ==
    /\ call' = [call EXCEPT !.output = output]
    /\ pc' = "idle"
    /\ head_outputs' = <<>>
    /\ projected' = <<>>
    /\ finished' = <<>>
    /\ concatenated' = Running
    /\ UNCHANGED <<obj, params, built, ctor, prev, x, remaining, applied>>

\* head h evaluates one more argument r, stored in field arg; an exception
\* ends the call
HeadProjects(h, arg, r) ==
    IF r.ok
    THEN /\ projected' = [projected EXCEPT ![h] = [@ EXCEPT !.stage = @ + 1, ![arg] = r]]
         /\ UNCHANGED <<obj, params, built, ctor, call, prev, pc, x, remaining, applied,
                        head_outputs, finished, concatenated>>
    ELSE MultiHeadAttentionEnds(r)

\* self.queries_projections[i](queries)
HeadProjectQueries ==
    /\ pc = "heads"
    /\ \E h \in 1..obj.num_heads :
           /\ projected[h].stage = 0
           /\ HeadProjects(h, "queries",
                           LinearForward(obj.queries_projections[h], params, call.input[1]))

\* self.keys_projections[i](keys)
HeadProjectKeys ==
    /\ pc = "heads"
    /\ \E h \in 1..obj.num_heads :
           /\ projected[h].stage = 1
           /\ HeadProjects(h, "keys",
                           LinearForward(obj.keys_projections[h], params, call.input[2]))

\* self.values_projections[i](values)
HeadProjectValues ==
    /\ pc = "heads"
    /\ \E h \in 1..obj.num_heads :
           /\ projected[h].stage = 2
           /\ HeadProjects(h, "values",
                           LinearForward(obj.values_projections[h], params, call.input[3]))

\* attention(...) of head h on its three projections; the result becomes
\* the head's element of the list
HeadAttention ==
    /\ pc = "heads"
    /\ \E h \in 1..obj.num_heads :
           /\ projected[h].stage = 3
           /\ LET r == ScaledDotProductAttention(projected[h].queries, projected[h].keys,
                                                 projected[h].values)
              IN IF r.ok
                 THEN /\ head_outputs' = [head_outputs EXCEPT ![HeadSlot(h, finished)] = r]
                      /\ projected' = [projected EXCEPT ![h].stage = 4]
                      /\ finished' = Append(finished, h)
                      /\ UNCHANGED <<obj, params, built, ctor, call, prev, pc, x, remaining,
                                     applied, concatenated>>
                 ELSE MultiHeadAttentionEnds(r)

\* heads_concatenated = torch.cat(heads, dim=2), once the list is complete
HeadsConcatenate ==
    /\ pc = "heads"
    /\ \A h \in 1..obj.num_heads : projected[h].stage = 4
    /\ concatenated' = TensorCat(head_outputs, CatDim)
    /\ pc' = "recombine"
    /\ UNCHANGED <<obj, params, built, ctor, call, prev, x, remaining, applied,
                   head_outputs, projected, finished>>

\* return self.multi_head_linear(heads_concatenated)
HeadsRecombine ==
    /\ pc = "recombine"
    /\ MultiHeadAttentionEnds(LinearForward(obj.multi_head_linear, params, concatenated))

-----------------------------------------------------------------------------
(* MultiHeadAttention on numbers.  The weights are drawn by a seed, as      *)
(* nn.Linear draws them from the random generator; inputs and weights are   *)
(* whole numbers, the attention's results are fixed point numbers.          *)

AttnLens == {1, 2}
Seeds == {60390295}

\* entry (o, i) of the weight, or entry o of the bias (i = 1), of id id: the
\* generator gives the bits of the seed, four to each id
InitialEntry(seed, id, o, i) == (seed \div 2^((4 * id + 2 * (o - 1) + i - 1) % 29)) % 2

InitialMatrix(seed, lin) ==
    [o \in 1..lin.out_features |-> [i \in 1..lin.in_features |->
        InitialEntry(seed, lin.weight, o, i)]]

InitialBias(seed, lin) == [o \in 1..lin.out_features |-> InitialEntry(seed, lin.bias, o, 1)]

\* the weights of a MultiHeadAttention built with base 0, by id
MultiHeadAttentionStore(self, seed) ==
    LET n == self.num_heads
    IN [id \in 1..MultiHeadAttentionSize(n) |->
           IF id <= n THEN InitialMatrix(seed, self.queries_projections[id])
           ELSE IF id <= 2 * n THEN InitialMatrix(seed, self.keys_projections[id - n])
           ELSE IF id <= 3 * n THEN InitialMatrix(seed, self.values_projections[id - 2 * n])
           ELSE IF id = 3 * n + 1 THEN InitialMatrix(seed, self.multi_head_linear)
           ELSE InitialBias(seed, self.multi_head_linear)]

\* nn.Linear.forward on numbers: t @ weight.T + bias, the entries of t
\* counted in units of 1/unit
LinearFixed(lin, store, t, unit) ==
    [b \in 1..Len(t) |-> [r \in 1..Rows(t[b]) |-> [o \in 1..lin.out_features |->
        SumTo([i \in 1..lin.in_features |-> t[b][r][i] * store[lin.weight][o][i]],
              lin.in_features)
        + (IF lin.bias = 0 THEN 0 ELSE store[lin.bias][o] * unit)]]]

RECURSIVE Flatten(_)
Flatten(ss) == IF ss = <<>> THEN <<>> ELSE Head(ss) \o Flatten(Tail(ss))

\* torch.cat(ts, dim=dim) on numbers, dim counted from 0: the parts follow
\* each other along the batch (0), the rows (1) or the columns (2)
CatFixed(ts, dim) ==
    IF dim = 0 THEN Flatten(ts)
    ELSE IF dim = 1
         THEN [b \in 1..Len(ts[1]) |-> Flatten([h \in 1..Len(ts) |-> ts[h][b]])]
    ELSE [b \in 1..Len(ts[1]) |-> [r \in 1..Rows(ts[1][b]) |->
             Flatten([h \in 1..Len(ts) |-> ts[h][b][r]])]]

\* variant: the values are projected by the keys' projection
MultiHeadAttentionForwardFixedKeysProjection(self, store, queries, keys, values) ==
    LET heads == [h \in 1..self.num_heads |->
                     AttentionForward(
                         LinearFixed(self.queries_projections[h], store, queries, 1),
                         LinearFixed(self.keys_projections[h], store, keys, 1),
                         LinearFixed(self.keys_projections[h], store, values, 1))]
        heads_concatenated == CatFixed(heads, CatDim)
    IN LinearFixed(self.multi_head_linear, store, heads_concatenated, FixedPoint)

MultiHeadAttentionForwardFixed(self, store, queries, keys, values) ==
    LET heads == [h \in 1..self.num_heads |->
                     AttentionForward(
                         LinearFixed(self.queries_projections[h], store, queries, 1),
                         LinearFixed(self.keys_projections[h], store, keys, 1),
                         LinearFixed(self.values_projections[h], store, values, 1))]
        heads_concatenated == CatFixed(heads, CatDim)
    IN LinearFixed(self.multi_head_linear, store, heads_concatenated, FixedPoint)

ConstructMultiHeadAttentionFixed ==
    /\ pc = "idle"
    /\ ctor.cls = "None"
    /\ \E h \in 1..MaxHeads, dk \in AttnDims, dv \in AttnDims, d \in AttnDims,
          seed \in Seeds :
           LET r == MultiHeadAttentionNew(h, dk, dv, d, 0)
           IN /\ obj' = r.inst
              /\ params' = IF r.ok THEN MultiHeadAttentionStore(r.inst, seed) ELSE <<>>
              /\ built' = [obj |-> obj', params |-> params']
              /\ ctor' = [cls |-> "MultiHeadAttention",
                          args |-> [num_heads |-> h, d_k |-> dk, d_v |-> dv, d_model |-> d,
                                    seed |-> seed],
                          ok |-> r.ok, err |-> r.err, created |-> r.created]
    /\ call' = NoCall
    /\ prev' = NoCall
    /\ UNCHANGED <<pc, x, remaining, applied>>
    /\ UNCHANGED headvars

MultiHeadAttentionReturnsFixed(input) ==
    /\ prev' = call
    /\ call' = [cls |-> "MultiHeadAttention",
                input |-> input,
                output |-> MultiHeadAttentionForwardFixed(obj, params, input[1], input[2],
                                                          input[3])]
    /\ UNCHANGED <<obj, params, built, ctor, pc, x, remaining, applied>>
    /\ UNCHANGED headvars

\* the first call of the module, on numeric queries (1, lq, d_model), keys
\* and values (1, lk, d_model)
MultiHeadAttentionCallFixed ==
    /\ pc = "idle"
    /\ obj.cls = "MultiHeadAttention"
    /\ call.cls = "None"
    /\ \E lq \in AttnLens, lk \in AttnLens :
       \E q \in Matrices(lq, ctor.args.d_model), k \in Matrices(lk, ctor.args.d_model),
          v \in Matrices(lk, ctor.args.d_model) :
           MultiHeadAttentionReturnsFixed(<<(<<q>>), (<<k>>), (<<v>>)>>)

Next ==
    \/ ConstructPositionalEncoding
    \/ ConstructMultiHeadAttention
    \/ ConstructFeedForward
    \/ ConstructEncoderLayer
    \/ ConstructTransformerEncoder
    \/ ConstructTransformer
    \/ PositionalEncodingCall
    \/ MultiHeadAttentionCall
    \/ FeedForwardCall
    \/ EncoderLayerCall
    \/ TransformerEncoderCall
    \/ TransformerEncoderLayerStep
    \/ TransformerEncoderReturn
    \/ Discard
    \/ Forget

Spec == Init /\ [][Next]_vars

\* the session that calls ScaledDotProductAttention on its own, on numbers
NextAttention ==
    \/ ConstructAttention
    \/ AttentionCall
    \/ Discard
    \/ Forget

SpecAttention == Init /\ [][NextAttention]_vars

\* the session that runs MultiHeadAttention.forward head by head
NextHeads ==
    \/ ConstructMultiHeadAttention
    \/ MultiHeadAttentionBegin
    \/ HeadProjectQueries
    \/ HeadProjectKeys
    \/ HeadProjectValues
    \/ HeadAttention
    \/ HeadsConcatenate
    \/ HeadsRecombine
    \/ Discard
    \/ Forget

SpecHeads == Init /\ [][NextHeads]_vars

\* the session that calls MultiHeadAttention on numbers
NextFixed ==
    \/ ConstructMultiHeadAttentionFixed
    \/ MultiHeadAttentionCallFixed
    \/ Discard
    \/ Forget

SpecFixed == Init /\ [][NextFixed]_vars

-----------------------------------------------------------------------------
(* Properties *)

Finished(cls) == pc = "idle" /\ call.cls = cls

InputShape == call.input[1].shape

\* the input has the feature dimension the module was built for
ValidInput == call.input[1].shape[3] = ctor.args.d_model

AbsDiff(a, b) == IF a > b THEN a - b ELSE b - a

\* sum of the attention weights of query a over the keys, batch element b
SumOverKeys(w, b, a) == SumTo([k \in 1..Cols(w[b]) |-> w[b][a][k]], Cols(w[b]))

\* C1: in ScaledDotProductAttention.forward, for every batch element and
\* every query position, the attention weights over all key positions sum
\* to 1 (to the precision of the fixed point division: one unit per key).
C1_WeightsSumToOneOverKeys ==
    Finished("ScaledDotProductAttention") =>
        \A b \in 1..Len(call.weights) : \A a \in 1..Rows(call.weights[b]) :
            AbsDiff(SumOverKeys(call.weights, b, a), FixedPoint) <= Cols(call.weights[b])

\* C2: for every valid configuration the hidden tensor has shape (B, L, D)
\* after PositionalEncoding.forward, MultiHeadAttention.forward,
\* PositionWiseFeedForwardNetwork.forward, every EncoderLayer.forward (also
\* inside the loop of TransformerEncoder.forward) and TransformerEncoder.forward.
C2_ShapePreserved ==
    /\ Finished("PositionalEncoding") /\ ValidInput /\ InputShape[2] <= ctor.args.max_seq_length
           => call.output.ok /\ call.output.shape = InputShape
    /\ Finished("MultiHeadAttention") /\ ValidInput
           => call.output.ok /\ call.output.shape = InputShape
    /\ Finished("PositionWiseFeedForwardNetwork") /\ ValidInput
           => call.output.ok /\ call.output.shape = InputShape
    /\ Finished("EncoderLayer") /\ ValidInput
           => call.output.ok /\ call.output.shape = InputShape
    /\ pc = "loop" /\ (ValidInput \/ ctor.args.num_layers = 0)
           => x.ok /\ x.shape = InputShape
    /\ Finished("TransformerEncoder") /\ (ValidInput \/ ctor.args.num_layers = 0)
           => call.output.ok /\ call.output.shape = InputShape

\* an encoder of two layers and two heads has returned for a batch of two
\* sequences of three positions
C2_Witness ==
    /\ Finished("TransformerEncoder")
    /\ ctor.args.num_layers = 2 /\ ctor.args.num_heads = 2
    /\ applied = <<1, 2>>
    /\ call.output.ok
    /\ call.output.shape = <<2, 3, ctor.args.d_model>>

AssertionErrors ==
    {"AssertionError: d_model must be divisible by num_heads",
     "AssertionError: d_k must be equal to d_model // num_heads",
     "AssertionError: d_v must be equal to d_model // num_heads"}

\* C3: MultiHeadAttention(num_heads=H, d_k, d_v, d_model=D) fails with an
\* assertion error, before any weight is created, whenever D mod H /= 0 or
\* d_k /= D div H or d_v /= D div H, and succeeds otherwise.
C3_MultiHeadAttentionConfiguration ==
    ctor.cls = "MultiHeadAttention" =>
        LET a == ctor.args
            good == /\ a.d_model % a.num_heads = 0
                    /\ a.d_k = a.d_model \div a.num_heads
                    /\ a.d_v = a.d_model \div a.num_heads
        IN /\ ctor.ok <=> good
           /\ ctor.ok => /\ obj.cls = "MultiHeadAttention"
                         /\ Len(params) = 3 * a.num_heads + 2
           /\ ~ctor.ok => /\ ctor.err \in AssertionErrors
                          /\ ctor.created = 0
                          /\ obj = NoObj
                          /\ params = <<>>

\* the construction failed only because d_v is not D div H
C3_Witness ==
    /\ ctor.cls = "MultiHeadAttention"
    /\ ctor.args.d_model % ctor.args.num_heads = 0
    /\ ctor.args.d_k = ctor.args.d_model \div ctor.args.num_heads
    /\ ctor.args.d_v /= ctor.args.d_model \div ctor.args.num_heads
    /\ ~ctor.ok
    /\ ctor.created = 0

\* C4: TransformerEncoder(num_layers, num_heads=H, sequence_length,
\* d_model=D) succeeds for every configuration with D mod H = 0, whatever
\* num_layers and sequence_length, and fails when D mod H /= 0; every layer
\* it builds has per-head dimensions D div H.
C4_EncoderConstruction ==
    ctor.cls = "TransformerEncoder" /\ ctor.args.d_ff = NoArg =>
        LET a == ctor.args
        IN /\ ctor.ok <=> a.d_model % a.num_heads = 0
           /\ ctor.ok =>
                  \A n \in 1..Len(obj.layers) : \A h \in 1..a.num_heads :
                      LET mha == obj.layers[n].multi_head_attention
                      IN /\ mha.queries_projections[h].out_features = a.d_model \div a.num_heads
                         /\ mha.keys_projections[h].out_features = a.d_model \div a.num_heads
                         /\ mha.values_projections[h].out_features = a.d_model \div a.num_heads

\* C5: PositionalEncoding.forward on an input of shape (B, L, D) returns
\* input + PE[0:L, :] when L <= M and fails for every L > M.
C5_PositionalEncodingRange ==
    Finished("PositionalEncoding") /\ ValidInput =>
        LET embedding == call.input[1]
            l == embedding.shape[2]
        IN IF l <= ctor.args.max_seq_length
           THEN /\ call.output.ok
                /\ call.output.shape = embedding.shape
                /\ call.output.val =
                       <<"add", embedding.val, <<"slice", l, obj.positional_encoding_matrix.val>>>>
           ELSE ~call.output.ok

NameErrorDecoder == "NameError: name 'TransformerDecoder' is not defined"

\* Transformer.forward needs an instance to be called on
TransformerForwardEnabled == pc = "idle" /\ obj.cls = "Transformer"

\* C6: the top-level Transformer never runs: Transformer.__init__ ends in
\* an error for every argument combination (the NameError of the undefined
\* TransformerDecoder whenever the statements before it succeed), so no
\* instance exists and Transformer.forward cannot be called.
C6_TransformerNeverRuns ==
    /\ ~TransformerForwardEnabled
    /\ ctor.cls = "Transformer" =>
           /\ ~ctor.ok
           /\ obj = NoObj
           /\ ctor.err \in {"RuntimeError", NameErrorDecoder} \cup AssertionErrors
           /\ LET a == ctor.args
                  d == ArgOr(a.d_model, DefaultDModel)
                  n == ArgOr(a.num_layers, DefaultNumLayers)
              IN (d % 2 = 0 /\ (n = 0 \/ (d % a.num_heads = 0 /\ a.sequence_length = d \div a.num_heads)))
                     => ctor.err = NameErrorDecoder

\* embedding, positional encoding and a two-layer encoder were built, then
\* the constructor stopped at the decoder
C6_Witness ==
    /\ ctor.cls = "Transformer"
    /\ ctor.args.num_layers = Arg(2)
    /\ ctor.args.num_heads = 2
    /\ ctor.err = NameErrorDecoder
    /\ ctor.created = 1 + 2 * EncoderLayerSize(2)

\* C7: forward calls leave the positional encoding matrix and every weight
\* as the constructor made them, and a call repeated on the same input
\* returns the same output.
C7_ForwardLeavesModuleUnchanged ==
    /\ built = [obj |-> obj, params |-> params]
    /\ \A id \in 1..Len(params) : params[id] = InitialWeight(id)
    /\ (pc = "idle" /\ prev.cls /= "None") =>
           /\ prev.cls = call.cls
           /\ prev.input = call.input
           /\ prev.output = call.output

\* an encoder layer was called twice on the same input and returned a tensor
C7_Witness ==
    /\ Finished("EncoderLayer")
    /\ prev.cls = "EncoderLayer"
    /\ call.output.ok
    /\ prev.output.ok

FeedForwardMaps(ffn, d_model, d_ff) ==
    /\ ffn.linear_1.in_features = d_model
    /\ ffn.linear_1.out_features = d_ff
    /\ ffn.linear_2.in_features = d_ff
    /\ ffn.linear_2.out_features = d_model

EncoderClasses == {"EncoderLayer", "TransformerEncoder"}

\* the arguments other than d_ff are accepted by the constructor
EncoderArgsValid ==
    LET a == ctor.args
    IN IF ctor.cls = "EncoderLayer"
       THEN MultiHeadAttentionCheck(a.num_heads, a.d_k, a.d_v, a.d_model) = "ok"
       ELSE \/ a.num_layers = 0
            \/ MultiHeadAttentionCheck(a.num_heads, a.sequence_length, a.sequence_length,
                                       a.d_model) = "ok"

BuiltLayers == IF ctor.cls = "EncoderLayer" THEN <<obj>> ELSE obj.layers

\* C8 as stated: an encoder (EncoderLayer / TransformerEncoder) can be
\* constructed with any chosen d_ff (default 2048), and its feed-forward
\* block then maps D -> d_ff -> D with that value.
C8_EncoderDffConfigurable ==
    (ctor.cls \in EncoderClasses /\ EncoderArgsValid) =>
        /\ ctor.ok
        /\ \A n \in 1..Len(BuiltLayers) :
               FeedForwardMaps(BuiltLayers[n].position_wise_feed_forward_network,
                               ctor.args.d_model, ArgOr(ctor.args.d_ff, DefaultDff))

\* C8 amended: d_ff is an option (default 2048) of
\* PositionWiseFeedForwardNetwork only; EncoderLayer and TransformerEncoder
\* take no d_ff argument (giving one is an error) and the feed-forward block
\* of every layer they build maps D -> 2048 -> D.
C8_DffFixedInEncoder ==
    /\ ctor.cls = "PositionWiseFeedForwardNetwork" =>
           /\ ctor.ok
           /\ FeedForwardMaps(obj, ctor.args.d_model, ArgOr(ctor.args.d_ff, DefaultDff))
    /\ ctor.cls \in EncoderClasses =>
           /\ ctor.args.d_ff /= NoArg => ~ctor.ok /\ ctor.err = UnexpectedKeyword
           /\ ctor.args.d_ff = NoArg => (ctor.ok <=> EncoderArgsValid)
           /\ ctor.ok =>
                  \A n \in 1..Len(BuiltLayers) :
                      FeedForwardMaps(BuiltLayers[n].position_wise_feed_forward_network,
                                      ctor.args.d_model, DefaultDff)

\* an encoder of two layers was built
C8_Witness ==
    /\ ctor.cls = "TransformerEncoder"
    /\ ctor.ok
    /\ Len(obj.layers) = 2
    /\ obj.layers[2].position_wise_feed_forward_network.linear_1.out_features = DefaultDff

\* the expression t with the outputs of the linear maps whose weights are in
\* zs replaced by zero, and t + 0 reduced to t
RECURSIVE WithoutSubBlocks(_, _)
WithoutSubBlocks(t, zs) ==
    IF t[1] = "linear" THEN (IF t[2] \in zs THEN <<"zero">> ELSE t)
    ELSE IF t[1] = "add"
         THEN LET a == WithoutSubBlocks(t[2], zs)
                  b == WithoutSubBlocks(t[3], zs)
              IN IF b = <<"zero">> THEN a ELSE IF a = <<"zero">> THEN b ELSE <<"add", a, b>>
    ELSE IF t[1] = "layer_norm" THEN <<"layer_norm", t[2], t[3], WithoutSubBlocks(t[4], zs)>>
    ELSE t

\* C9: EncoderLayer.forward computes x1 = x + MultiHeadAttention(x, x, x),
\* x2 = LayerNorm1(x1), x3 = x2 + FeedForward(x2), result = LayerNorm2(x3);
\* with both sub-blocks replaced by zero the result is LayerNorm2(LayerNorm1(x)).
C9_PostNormOrder ==
    (Finished("EncoderLayer") /\ call.output.ok) =>
        LET t == call.input[1]
            ln1 == obj.layer_normalization_1
            ln2 == obj.layer_normalization_2
            mha == obj.multi_head_attention
            ffn == obj.position_wise_feed_forward_network
            result == call.output.val
            x3 == result[4]
            x2 == x3[2]
            x1 == x2[4]
        IN /\ result[1] = "layer_norm"
           /\ result[2] = params[ln2.weight] /\ result[3] = params[ln2.bias]
           /\ x3[1] = "add"
           /\ x2[1] = "layer_norm"
           /\ x2[2] = params[ln1.weight] /\ x2[3] = params[ln1.bias]
           /\ x3[3] = PositionWiseFeedForwardNetworkForward(ffn, params, Tensor(t.shape, x2)).val
           /\ x1[1] = "add"
           /\ x1[2] = t.val
           /\ x1[3] = MultiHeadAttentionForward(mha, params, t, t, t).val
           /\ WithoutSubBlocks(result, {params[mha.multi_head_linear.weight],
                                        params[ffn.linear_2.weight]})
                  = <<"layer_norm", params[ln2.weight], params[ln2.bias],
                      <<"layer_norm", params[ln1.weight], params[ln1.bias], t.val>>>>

\* an encoder layer of two heads returned a tensor
C9_Witness ==
    /\ Finished("EncoderLayer")
    /\ call.output.ok
    /\ obj.multi_head_attention.num_heads = 2
    /\ call.input[1].shape[2] = 2

\* the ids of the weights of an encoder layer
LayerWeights(layer) ==
    LET mha == layer.multi_head_attention
        ffn == layer.position_wise_feed_forward_network
    IN UNION {{mha.queries_projections[h].weight, mha.keys_projections[h].weight,
               mha.values_projections[h].weight} : h \in 1..mha.num_heads}
       \cup {mha.multi_head_linear.weight, mha.multi_head_linear.bias,
             layer.layer_normalization_1.weight, layer.layer_normalization_1.bias,
             layer.layer_normalization_2.weight, layer.layer_normalization_2.bias,
             ffn.linear_1.weight, ffn.linear_1.bias, ffn.linear_2.weight, ffn.linear_2.bias}

\* layers 1..n applied in order to the input of the call
RECURSIVE StackOutput(_)
StackOutput(n) ==
    IF n = 0 THEN call.input[1]
    ELSE EncoderLayerForward(obj.layers[n], params, StackOutput(n - 1))

\* C10: TransformerEncoder.forward applies its N layers once each, in index
\* order, each to the output of the one before; the result is the output of
\* the last layer and nothing more (the input itself for N = 0); the layers
\* own separate weights.
C10_LayersInSequence ==
    /\ obj.cls = "TransformerEncoder" =>
           \A m \in 1..Len(obj.layers) : \A n \in 1..Len(obj.layers) :
               m /= n => LayerWeights(obj.layers[m]) \cap LayerWeights(obj.layers[n]) = {}
    /\ (call.cls = "TransformerEncoder" /\ pc = "loop") =>
           /\ applied = [n \in 1..Len(applied) |-> n]
           /\ remaining = [n \in 1..Len(remaining) |-> Len(applied) + n]
           /\ Len(applied) + Len(remaining) = Len(obj.layers)
           /\ x = StackOutput(Len(applied))
    /\ Finished("TransformerEncoder") =>
           /\ applied = [n \in 1..Len(applied) |-> n]
           /\ call.output = StackOutput(Len(applied))
           /\ call.output.ok => Len(applied) = Len(obj.layers)
           /\ Len(obj.layers) = 0 => call.output = call.input[1]

\* an encoder of two layers returned a tensor
C10_Witness ==
    /\ Finished("TransformerEncoder")
    /\ Len(obj.layers) = 2
    /\ applied = <<1, 2>>
    /\ call.output.ok

\* the element of head h of the list comprehension, computed on its own from
\* the inputs of the call and the head's three projections
HeadResult(h) ==
    ScaledDotProductAttention(
        LinearForward(obj.queries_projections[h], params, call.input[1]),
        LinearForward(obj.keys_projections[h], params, call.input[2]),
        LinearForward(obj.values_projections[h], params, call.input[3]))

HeadsRunning == call.cls = "MultiHeadAttention" /\ pc \in {"heads", "recombine"}

\* C11: in MultiHeadAttention.forward the H heads are independent: in every
\* order and interleaving of their steps, each head holds the projections of
\* the shared inputs by its own weights and only a finished head has written
\* its element, which is the head's own result.  The concatenation exists only
\* when all H results exist, and holds the result of head h (h = 0..H-1) in
\* the columns [h*d_v, (h+1)*d_v).  The value returned is the one the heads
\* computed in index order give.
C11_HeadsIndependentAndOrdered ==
    /\ HeadsRunning =>
           \A h \in 1..obj.num_heads :
               /\ projected[h].stage >= 1 =>
                      projected[h].queries =
                          LinearForward(obj.queries_projections[h], params, call.input[1])
               /\ projected[h].stage >= 2 =>
                      projected[h].keys =
                          LinearForward(obj.keys_projections[h], params, call.input[2])
               /\ projected[h].stage >= 3 =>
                      projected[h].values =
                          LinearForward(obj.values_projections[h], params, call.input[3])
               /\ head_outputs[h] = IF projected[h].stage = 4 THEN HeadResult(h) ELSE Pending
    /\ (HeadsRunning /\ pc = "heads") => concatenated = Running
    /\ (HeadsRunning /\ pc = "recombine") =>
           /\ \A h \in 1..obj.num_heads : projected[h].stage = 4 /\ head_outputs[h].ok
           /\ Len(finished) = obj.num_heads
           /\ concatenated = TensorCat(head_outputs, CatDim)
           /\ concatenated.ok
           /\ Last(concatenated.shape) = obj.num_heads * ctor.args.d_v
           /\ \A h \in 0..(obj.num_heads - 1) :
                  \A c \in (h * ctor.args.d_v)..((h + 1) * ctor.args.d_v - 1) :
                      LET at == CatColumn(head_outputs, 1, c)
                      IN /\ head_outputs[at[1]] = HeadResult(h + 1)
                         /\ at[2] = c - h * ctor.args.d_v
    /\ Finished("MultiHeadAttention") =>
           call.output = MultiHeadAttentionForward(obj, params, call.input[1], call.input[2],
                                                   call.input[3])

\* two heads of width 2 are concatenated after head 2 finished before head 1
C11_Witness ==
    /\ HeadsRunning
    /\ pc = "recombine"
    /\ obj.num_heads = 2
    /\ ctor.args.d_v = 2
    /\ finished = <<2, 1>>
    /\ concatenated.ok
    /\ concatenated.shape[3] = 4

\* plain attention on the projections of the inputs by the weights of the
\* single head, passed through the recombination linear
SingleHeadReference(self, store, queries, keys, values) ==
    LinearFixed(self.multi_head_linear, store,
                AttentionForward(LinearFixed(self.queries_projections[1], store, queries, 1),
                                 LinearFixed(self.keys_projections[1], store, keys, 1),
                                 LinearFixed(self.values_projections[1], store, values, 1)),
                FixedPoint)

\* C12: for a MultiHeadAttention with one head (d_k = d_v = d_model), for all
\* queries, keys and values, the output of forward equals the recombination
\* linear applied to ScaledDotProductAttention of the three projected inputs.
C12_SingleHeadIsPlainAttention ==
    (Finished("MultiHeadAttention") /\ obj.num_heads = 1) =>
        /\ ctor.args.d_k = ctor.args.d_model
        /\ ctor.args.d_v = ctor.args.d_model
        /\ call.output = SingleHeadReference(obj, params, call.input[1], call.input[2],
                                             call.input[3])

\* a single head of width 2 has attended two queries over two keys and the
\* two rows of the output differ
C12_Witness ==
    /\ Finished("MultiHeadAttention")
    /\ obj.num_heads = 1
    /\ ctor.args.d_model = 2
    /\ Rows(call.input[1][1]) = 2
    /\ Rows(call.input[2][1]) = 2
    /\ call.output[1][1] /= call.output[1][2]
    /\ call.output = SingleHeadReference(obj, params, call.input[1], call.input[2],
                                         call.input[3])

====
